---- MODULE Spec2Model ----
(***************************************************************************)
(* Model of the session / playback timing engine of morse_echo             *)
(* (src/main.py, class MorseGame) together with the narrow save contract   *)
(* of SessionHistory.                                                       *)
(*                                                                          *)
(* The program runs on one event loop: every handler (a button click, a    *)
(* key event, a ui.timer callback) runs to completion before the next one  *)
(* starts, and audio playback blocks the loop (sd.play(..., blocking=True)).*)
(* Each handler is therefore one atomic action.                             *)
(*                                                                          *)
(* Time is counted in ticks of 0.5 s.  A one-shot ui.timer is a record in  *)
(* `timers` with the tick at which it falls due; it never fires early, and *)
(* the clock does not pass a due timer except while a handler blocks the   *)
(* loop with audio.  Session lengths are scaled down to a few ticks; the   *)
(* order 0.5 s pacing < 1.0 s start buffer < session length is kept.       *)
(***************************************************************************)
EXTENDS Integers, Sequences, FiniteSets, Bags, TLC

(* ------------------------------ bounds --------------------------------- *)

\* Last tick of the clock.
MaxTime == 6

\* Number of user inputs (Start clicks, Stop clicks, key events) in one run.
MaxInputs == 4

(* ------------------------- program constants --------------------------- *)

\* ui.timer(1.0, self.next_char, once=True), in ticks.
StartBuffer == 2

\* ui.timer(0.5, self.next_char, once=True), in ticks.
Pacing == 1

\* self.wpm = 20
DefaultWpm == 20

\* self.session_length = 60 (seconds) as set by __init__, in ticks.
DefaultLength == 120

\* float('inf'): larger than every reaction time.
Inf == 9999

\* None, for current_char.
None == "None"

\* The empty text of the score_display label: no summary is shown.  The label
\* holds no summary or one, as a sequence of length 0 or 1.
NoSummary == <<>>

\* None, for play_time (a tick otherwise).
NoTime == -1

\* None, for _session_timer (the number of the session whose end timer the
\* handle refers to otherwise).
NoTimer == 0

\* MORSE_CODE.keys(), cut down to two letters.
Chars == {"A", "B"}

\* Values of e.key: a letter key and a named key.
Keys == {"a", "Shift"}

\* Values of the WPM slider (min=10, max=30, step=2): its two ends and one
\* step off the default.
WpmValues == {10, 22, 30}

\* int(self.length_input.value): whole seconds, in ticks (scaled down to 3 s).
SessionLengths == {6}

\* Ticks for which play_morse blocks the event loop (a tone sequence lasts
\* between a fraction of a tick and two ticks, depending on letter and wpm).
PlayDurs == {0, 1}

\* Ticks for which play_bell blocks the event loop (0.35 s: under one tick).
BellDurs == {0}

\* Outcomes of a call into the audio device, the timer object or the store.
Outcomes == {"ok", "raise"}

(* ------------------------------- state --------------------------------- *)

VARIABLES
    now,              \* the clock, in ticks
    timers,           \* the bag of pending one-shot ui.timer objects
    session_active,   \* self.session_active
    session_length,   \* self.session_length
    session_timer,    \* self._session_timer
    current_char,     \* self.current_char
    play_time,        \* self.play_time
    scores,           \* self.scores: <<played_char, time, correct, pressed_char>>
    best_score,       \* self.best_score
    response_times,   \* self.response_times
    is_playing,       \* self._is_playing
    wpm,              \* self.wpm
    dot_duration,     \* self.dot_duration, seconds as a ratio
    dash_duration,    \* self.dash_duration, seconds as a ratio
    score_display,    \* self.score_display.text: the final summary
    history,          \* the sessions table of SessionHistory
    session_no,       \* history variable: number of effective starts so far
    tally,            \* history variable: what the current session has done
    inputs,           \* history variable: number of user inputs so far
    ev,               \* history variable: the handler that ran last
    played,           \* history variable: the sound the last handler played
    plays             \* history variable: times the tones of current_char
                      \* were sent to the audio device

vars == <<now, timers, session_active, session_length, session_timer,
          current_char, play_time, scores, best_score, response_times,
          is_playing, wpm, dot_duration, dash_duration, score_display,
          history, session_no, tally, inputs, ev, played, plays>>

\* The fields of MorseGame (everything but the clock, the timers, the store
\* and the history variables).
game == <<session_active, session_length, session_timer, current_char,
          play_time, scores, best_score, response_times, is_playing, wpm,
          dot_duration, dash_duration, score_display>>

(* ------------------------------ helpers -------------------------------- *)

\* str.upper() on the key names of Keys.
Upper(k) == CASE k = "a" -> "A"
              [] k = "b" -> "B"
              [] OTHER   -> k

\* A float the program computes by division, kept exact: num / den.  A den
\* of 0 stands for the ZeroDivisionError of a division by zero.
Ratio(n, d) == [num |-> n, den |-> d]

\* Two ratios are the same number.
SameRatio(a, b) == a.den # 0 /\ b.den # 0 /\ a.num * b.den = b.num * a.den

\* MorseGame._calculate_dot_duration: 1.2 / wpm.
CalculateDotDuration(w) == Ratio(12, 10 * w)

\* Faulty variant: the dash computed from the dot duration of before the
\* update.
DashDuration_OldDot(dot) == Ratio(dot_duration.num * 3, dot_duration.den)

\* self.dot_duration * 3
DashDuration(dot) == Ratio(dot.num * 3, dot.den)

\* min(self.best_score, reaction_time)
Min(a, b) == IF a <= b THEN a ELSE b

\* A fresh tally, taken at every effective start.  own: the pending character
\* was set, during the session, by a next_char callback the session scheduled.
NoTally ==
    [stops |-> 0, saves |-> 0, bells |-> 0, accepted |-> 0, own |-> FALSE]

\* ui.timer(delay, callback, once=True) created at tick t in session s.
Timer(callback, delay, s) == [callback |-> callback, due |-> now + delay, sess |-> s]

\* The bag of timers with one more copy of t.
Schedule(pending, t) == pending (+) SetToBag({t})

\* The bag of timers with one copy of t less: a one-shot timer is spent when
\* it fires.
Spend(pending, t) == pending (-) SetToBag({t})

\* The pending timer t is due, and no pending timer falls due before it.
Due(t) == /\ BagIn(t, timers)
          /\ t.due <= now
          /\ \A u \in BagToSet(timers) : u.due >= t.due

\* Some timer is due: the event loop runs it before the clock moves on.
SomeDue == \E t \in BagToSet(timers) : t.due <= now

\* Faulty variant: handle_keypress without its session_active test.
KeyIgnored_NoActiveTest == current_char = None \/ play_time = NoTime

\* The first test of handle_keypress: the key event is ignored.
KeyIgnored == ~session_active \/ current_char = None \/ play_time = NoTime

\* The trainer is waiting for input: a single-character key would be accepted.
Waiting == ~KeyIgnored

\* Faulty variant: start_session without its first test.
StartRejects_Never == FALSE

\* The first test of start_session: the call returns at once.
StartRejects == session_active

\* Faulty variant: stop_session without its first test.
StopRejects_Never == FALSE

\* Faulty variant: stop_session returning at once when no character is pending.
StopRejects_NoCharPending == current_char = None

\* The first test of stop_session: the call returns at once.
StopRejects == ~session_active

\* Faulty variant: stop_session saving every session, an empty one too.
SaveWanted_Always == TRUE

\* stop_session computes the summary and saves the session: `if self.scores`.
SaveWanted == scores # <<>>

\* The handlers that run stop_session: the Stop button and the end timer.
StopOps == {"stop", "timeout"}

\* What `played` holds after a handler called play_bell.
Bells == {"bell", "bell_failed"}

(* ------------------------------ initial state -------------------------- *)

Init ==
    /\ now = 0
    /\ timers = EmptyBag
    /\ session_active = FALSE
    /\ session_length = DefaultLength
    /\ session_timer = NoTimer
    /\ current_char = None
    /\ play_time = NoTime
    /\ scores = <<>>
    /\ best_score = Inf
    /\ response_times = <<>>
    /\ is_playing = FALSE
    /\ wpm = DefaultWpm
    /\ dot_duration = CalculateDotDuration(DefaultWpm)
    /\ dash_duration = DashDuration(CalculateDotDuration(DefaultWpm))
    /\ score_display = NoSummary
    /\ history = <<>>
    /\ session_no = 0
    /\ tally = NoTally
    /\ inputs = 0
    /\ ev = [op |-> "init", key |-> None]
    /\ played = "none"
    /\ plays = 0

(* ------------------------------- actions ------------------------------- *)

\* Time passes while the event loop is idle.
Tick ==
    /\ now < MaxTime
    /\ ~SomeDue
    /\ now' = now + 1
    /\ ev' = [op |-> "tick", key |-> None]
    /\ played' = "none"
    /\ UNCHANGED <<timers, game, history, session_no, tally, inputs, plays>>

\* The timer start_session creates for the first character of session s.
FirstCharTimer(s) == Timer("next_char", StartBuffer, s)

\* Faulty variant: the session timer created from self.session_length as it
\* was before start_session read the length input.
SessionEndTimer_OldLength(len, s) == Timer("stop_session", session_length, s)

\* Faulty variant: the session timer created with next_char as its callback.
SessionEndTimer_WrongCallback(len, s) == Timer("next_char", len, s)

\* The timer start_session creates for the end of session s, len ticks long.
SessionEndTimer(len, s) == Timer("stop_session", len, s)

\* MorseGame.start_session, from the Start button.
StartSession(len) ==
    /\ inputs < MaxInputs
    /\ inputs' = inputs + 1
    /\ ev' = [op |-> "start", key |-> None]
    /\ played' = "none"
    /\ IF StartRejects
       THEN UNCHANGED <<now, timers, game, history, session_no, tally, plays>>
       ELSE /\ session_length' = len
            /\ session_active' = TRUE
            /\ scores' = <<>>
            /\ score_display' = NoSummary
            /\ timers' = Schedule(Schedule(timers, FirstCharTimer(session_no + 1)),
                                   SessionEndTimer(len, session_no + 1))
            /\ session_timer' = session_no + 1
            /\ session_no' = session_no + 1
            /\ tally' = NoTally
            /\ UNCHANGED <<now, current_char, play_time, best_score,
                           response_times, is_playing, wpm, dot_duration,
                           dash_duration, history, plays>>

\* Faulty variant: play_morse_and_reset_timer without its _is_playing test.
PlayMorseAndResetTimer_NoGuard(outcome, d) ==
    IF outcome = "ok"
    THEN <<FALSE, now, now + d, "tone">>
    ELSE <<TRUE, now, now, "tone_failed">>

\* MorseGame.play_morse_and_reset_timer with the outcome of play_morse: the
\* new values of <<is_playing, play_time, now, played>>.
PlayMorseAndResetTimer(outcome, d) ==
    IF is_playing
    THEN <<is_playing, play_time, now, "none">>
    ELSE IF outcome = "ok"
         THEN <<FALSE, now, now + d, "tone">>
         ELSE <<TRUE, now, now, "tone_failed">>

\* MorseGame.next_char, run by the pending timer t.
NextChar(t, c, outcome, d) ==
    /\ Due(t)
    /\ t.callback = "next_char"
    /\ now + d <= MaxTime
    /\ timers' = Spend(timers, t)
    /\ current_char' = c
    /\ LET r == PlayMorseAndResetTimer(outcome, d)
       IN  /\ is_playing' = r[1]
           /\ play_time' = r[2]
           /\ now' = r[3]
           /\ played' = r[4]
           /\ plays' = IF r[4] = "none" THEN 0 ELSE 1
    /\ tally' = [tally EXCEPT !.own = session_active /\ t.sess = session_no]
    /\ ev' = [op |-> "next_char", key |-> None]
    /\ UNCHANGED <<session_active, session_length, session_timer, scores,
                   best_score, response_times, wpm, dot_duration, dash_duration,
                   score_display, history, session_no, inputs>>

\* Faulty variant: handle_keypress taking every accepted answer as correct.
Correct_Always(k) == TRUE

\* handle_keypress finds the answer correct: pressed_char == self.current_char.
Correct(k) == Upper(k) = current_char

\* Faulty variant: the key compared and recorded as typed, without upper().
Trial_NoUpper(k) == <<current_char, now - play_time, k = current_char, k>>

\* The Trial handle_keypress appends for key k.
Trial(k) == <<current_char, now - play_time, Upper(k) = current_char, Upper(k)>>

\* Faulty variant: handle_keypress without its test of the key's length.
Accepts_AnyLength(k) == Waiting

\* handle_keypress accepts key k as an answer.
Accepts(k) == Waiting /\ Len(k) = 1

\* MorseGame.handle_keypress, for a key event with e.key = k.
HandleKeypress(k) ==
    /\ inputs < MaxInputs
    /\ inputs' = inputs + 1
    /\ ev' = [op |-> "key", key |-> k]
    /\ played' = "none"
    /\ IF ~Accepts(k)
       THEN UNCHANGED <<now, timers, game, history, session_no, tally, plays>>
       ELSE /\ scores' = Append(scores, Trial(k))
            /\ IF Correct(k)
               THEN /\ best_score' = Min(best_score, now - play_time)
                    /\ response_times' = Append(response_times, now - play_time)
               ELSE UNCHANGED <<best_score, response_times>>
            /\ current_char' = None
            /\ play_time' = NoTime
            /\ timers' = IF session_active
                         THEN Schedule(timers, Timer("next_char", Pacing, session_no))
                         ELSE timers
            /\ tally' = [tally EXCEPT !.accepted = @ + 1, !.own = FALSE]
            /\ plays' = 0
            /\ UNCHANGED <<now, session_active, session_length, session_timer,
                           is_playing, wpm, dot_duration, dash_duration,
                           score_display, history, session_no>>

\* self._session_timer.stop() inside try/except: the timers left pending.
CancelSessionTimer(pending, cancel) ==
    IF session_timer # NoTimer /\ cancel = "ok"
    THEN LET other == {t \in BagToSet(pending) :
                          ~(t.callback = "stop_session" /\ t.sess = session_timer)}
         IN  [t \in other |-> pending[t]]
    ELSE pending

\* sum(1 for (_, _, correct, _) in scores if correct)
CorrectAttempts(log) == Cardinality({n \in 1..Len(log) : log[n][3]})

\* sum(t for (_, t, correct, _) in scores if correct)
RECURSIVE CorrectTimeSum(_)
CorrectTimeSum(log) ==
    IF log = <<>>
    THEN 0
    ELSE (IF Head(log)[3] THEN Head(log)[2] ELSE 0) + CorrectTimeSum(Tail(log))

\* Faulty variant: the accuracy left a fraction, not multiplied by 100.
Accuracy_Fraction(log) ==
    IF Len(log) > 0
    THEN Ratio(CorrectAttempts(log), Len(log))
    ELSE Ratio(0, 1)

\* accuracy in save_session:
\* (correct_attempts / total_attempts * 100) if total_attempts > 0 else 0.0
Accuracy(log) ==
    IF Len(log) > 0
    THEN Ratio(CorrectAttempts(log) * 100, Len(log))
    ELSE Ratio(0, 1)

\* percentage in stop_session: (correct / total * 100) if total > 0 else 0
Percentage(log) ==
    IF Len(log) > 0
    THEN Ratio(CorrectAttempts(log) * 100, Len(log))
    ELSE Ratio(0, 1)

\* (sum(correct_times) / len(correct_times)) if correct_times else None:
\* <<>> for None, the average alone in a sequence otherwise.
AvgResponseTime(log) ==
    IF CorrectAttempts(log) > 0
    THEN <<Ratio(CorrectTimeSum(log), CorrectAttempts(log))>>
    ELSE <<>>

\* SessionHistory.save_session(scores, wpm, duration): the row it inserts.
SessionRow(log, speed, duration) ==
    [scores |-> log, wpm |-> speed, duration |-> duration,
     total_attempts |-> Len(log), correct_attempts |-> CorrectAttempts(log),
     accuracy |-> Accuracy(log), avg_response_time |-> AvgResponseTime(log)]

\* The final summary stop_session writes to score_display:
\* 'Final Score: {correct}/{total} ({percentage:.1f}%), Avg: {avg_text}'.
Summary(log) ==
    <<[correct |-> CorrectAttempts(log), total |-> Len(log),
       percentage |-> Percentage(log), avg |-> AvgResponseTime(log)]>>

\* Faulty variant: the exception of save_session leaves stop_session, so the
\* bell after it is never reached.
EndBell_SaveEscapes(save, bell) ==
    IF SaveWanted /\ save = "raise"
    THEN "none"
    ELSE IF bell = "ok" THEN "bell" ELSE "bell_failed"

\* The sound of the rest of stop_session once the try/except around
\* save_session is left: play_bell, itself inside try/except.
EndBell(save, bell) == IF bell = "ok" THEN "bell" ELSE "bell_failed"

\* The body of MorseGame.stop_session; `pending` are the timers still pending
\* when it is called.
StopSession(pending, cancel, save, bell, d) ==
    IF StopRejects
    THEN /\ timers' = pending
         /\ played' = "none"
         /\ UNCHANGED <<now, game, history, session_no, tally, plays>>
    ELSE /\ now + d <= MaxTime
         /\ session_active' = FALSE
         /\ current_char' = None
         /\ play_time' = NoTime
         /\ timers' = CancelSessionTimer(pending, cancel)
         /\ session_timer' = NoTimer
         /\ history' = IF SaveWanted /\ save = "ok"
                       THEN Append(history, SessionRow(scores, wpm, session_length))
                       ELSE history
         /\ score_display' = IF SaveWanted THEN Summary(scores) ELSE score_display
         /\ plays' = 0
         /\ played' = EndBell(save, bell)
         /\ now' = IF EndBell(save, bell) = "bell" THEN now + d ELSE now
         /\ tally' = [tally EXCEPT !.own = FALSE,
                                   !.stops = @ + 1,
                                   !.saves = IF SaveWanted THEN @ + 1 ELSE @,
                                   !.bells = @ + 1]
         /\ UNCHANGED <<session_length, scores, best_score, response_times,
                        is_playing, wpm, dot_duration, dash_duration, session_no>>

\* The Stop button.
StopButton(cancel, save, bell, d) ==
    /\ inputs < MaxInputs
    /\ inputs' = inputs + 1
    /\ ev' = [op |-> "stop", key |-> None]
    /\ StopSession(timers, cancel, save, bell, d)

\* The session-end timer t runs stop_session.
SessionTimeout(t, cancel, save, bell, d) ==
    /\ Due(t)
    /\ t.callback = "stop_session"
    /\ ev' = [op |-> "timeout", key |-> None]
    /\ UNCHANGED inputs
    /\ StopSession(Spend(timers, t), cancel, save, bell, d)

Next ==
    \/ Tick
    \/ \E len \in SessionLengths : StartSession(len)
    \/ \E t \in BagToSet(timers), c \in Chars, o \in Outcomes, d \in PlayDurs :
          NextChar(t, c, o, d)
    \/ \E k \in Keys : HandleKeypress(k)
    \/ \E c \in Outcomes, s \in Outcomes, b \in Outcomes, d \in BellDurs :
          StopButton(c, s, b, d)
    \/ \E t \in BagToSet(timers), c \in Outcomes, s \in Outcomes, b \in Outcomes,
          d \in BellDurs : SessionTimeout(t, c, s, b, d)

Spec == Init /\ [][Next]_vars

\* MorseGame.update_wpm(new_wpm), from the WPM slider.
UpdateWpm(w) ==
    /\ inputs < MaxInputs
    /\ inputs' = inputs + 1
    /\ wpm' = w
    /\ dot_duration' = CalculateDotDuration(w)
    /\ dash_duration' = DashDuration(CalculateDotDuration(w))
    /\ ev' = [op |-> "wpm", key |-> None]
    /\ played' = "none"
    /\ UNCHANGED <<now, timers, session_active, session_length, session_timer,
                   current_char, play_time, scores, best_score, response_times,
                   is_playing, score_display, history, session_no, tally, plays>>

\* The program with its WPM slider in use.
NextWpm ==
    \/ \E w \in WpmValues : UpdateWpm(w)
    \/ Next

WpmSpec == Init /\ [][NextWpm]_vars


\* A Start click early enough for the session's end timer to fall due before
\* the clock of the model stops.
StartInTime(len) ==
    /\ StartRejects \/ now + len <= MaxTime
    /\ StartSession(len)

\* The event loop runs a due timer callback.
TimerFires ==
    \/ \E t \in BagToSet(timers), c \in Chars, o \in Outcomes, d \in PlayDurs :
          NextChar(t, c, o, d)
    \/ \E t \in BagToSet(timers), c \in Outcomes, s \in Outcomes, b \in Outcomes,
          d \in BellDurs : SessionTimeout(t, c, s, b, d)

NextInTime ==
    \/ Tick
    \/ \E len \in SessionLengths : StartInTime(len)
    \/ TimerFires
    \/ \E k \in Keys : HandleKeypress(k)
    \/ \E c \in Outcomes, s \in Outcomes, b \in Outcomes, d \in BellDurs :
          StopButton(c, s, b, d)

\* The program with time that keeps passing and an event loop that keeps
\* running due callbacks; the user is free to do nothing.
FairSpec == Init /\ [][NextInTime]_vars /\ WF_vars(Tick) /\ WF_vars(TimerFires)


(* ------------------------------- claims -------------------------------- *)

\* C1: in every state between handlers, current_char is non-null exactly when
\* the trainer is waiting for input (session active and a single-character
\* key would be accepted); in particular it is null while the session is
\* inactive.
C1_CharPendingIffWaiting ==
    /\ (current_char # None) <=> Waiting
    /\ ~session_active => current_char = None

\* C2: once stop_session has run, no timer callback scheduled before the stop
\* presents a character, plays tones, or changes current_char or play_time.
\* (While the session is inactive every pending timer predates the stop.)
C2_StopInvalidatesCallbacks ==
    [][(~session_active /\ ev'.op \in {"next_char", "timeout"})
          => /\ current_char' = current_char
             /\ play_time' = play_time
             /\ played' \notin {"tone", "tone_failed"}]_vars

\* C3: an accepted single-character key appends exactly one Trial
\* <<pending character, reaction time, uppercased key = pending character,
\* uppercased key>> and clears current_char and play_time; a key arriving
\* while no character is pending appends nothing.
C3_AcceptedKeyAppendsOneTrial ==
    [][\A k \in Keys :
          (ev'.op = "key" /\ ev'.key = k) =>
             IF session_active /\ current_char # None /\ play_time # NoTime
                /\ Len(k) = 1
             THEN /\ Len(scores') = Len(scores) + 1
                  /\ SubSeq(scores', 1, Len(scores)) = scores
                  /\ scores'[Len(scores')][1] = current_char
                  /\ scores'[Len(scores')][3] = (Upper(k) = current_char)
                  /\ scores'[Len(scores')][4] = Upper(k)
                  /\ current_char' = None
                  /\ play_time' = NoTime
             ELSE scores' = scores]_vars

\* C3 witness: the last handler accepted a key that matched the pending
\* character, and the prompt is cleared.
C3_Witness ==
    /\ ev.op = "key"
    /\ session_active
    /\ scores # <<>>
    /\ scores[Len(scores)][3] = TRUE
    /\ scores[Len(scores)][4] = Upper(ev.key)
    /\ ev.key # Upper(ev.key)
    /\ current_char = None
    /\ play_time = NoTime

\* C4: whatever the interleaving of Stop button, session-end timer and keys,
\* a started session is ended once, handed to save_session at most once and
\* rings the end bell at most once; every accepted key is one Trial of the
\* session's log, and the store holds at most one row per ended session.
C4_StopIdempotent ==
    /\ tally.stops <= 1
    /\ tally.saves <= 1
    /\ tally.bells <= 1
    /\ session_no > 0 => (session_active <=> tally.stops = 0)
    /\ ~session_active /\ session_no > 0 => tally.bells = 1
    /\ tally.accepted = Len(scores)
    /\ Len(history) <= session_no - (IF session_active THEN 1 ELSE 0)
    /\ tally.saves = 0 => Len(history) < session_no \/ session_no = 0

\* C4 witness: the session-end timer fired after the Stop button had already
\* ended a session in which a key was accepted, and was turned away.
C4_Witness ==
    /\ ev.op = "timeout"
    /\ played = "none"
    /\ ~session_active
    /\ tally.stops = 1
    /\ tally.accepted >= 1

\* C5: start_session while a session is active changes nothing: the trial
\* log, session_active, session_length, current_char, play_time and the
\* pending timers stay as they are, so no timer is added.
C5_StartWhileActiveIsNoOp ==
    [][(ev'.op = "start" /\ session_active)
          => UNCHANGED <<scores, session_active, session_length, session_timer,
                         current_char, play_time, timers>>]_vars

\* C5 witness: Start was clicked in an active session whose log already held
\* a trial (an effective start would have cleared it).
C5_Witness ==
    /\ ev.op = "start"
    /\ session_active
    /\ scores # <<>>
    /\ BagCardinality(timers) >= 1

\* C6: a failure of tone playback leaves the session usable: the playback
\* guard is free between handlers and a character pending in an active
\* session can be answered.
C6_PlaybackFailureKeepsSessionUsable ==
    /\ ~is_playing
    /\ session_active /\ current_char # None => Waiting

C8_StopWithoutPendingCharIsNoOp ==
    [][(ev'.op \in StopOps /\ current_char = None)
          => /\ played' \notin Bells
             /\ history' = history
             /\ UNCHANGED game]_vars

\* C8 (amended): stop called while the session is inactive is a no-op: no
\* bell, nothing saved, session state unchanged, whether or not a character
\* is shown; called in an active session it ends the session and attempts
\* the bell even when no character is pending.
C8_StopWhileInactiveIsNoOp ==
    [][ev'.op \in StopOps
          => IF ~session_active
             THEN /\ played' \notin Bells
                  /\ history' = history
                  /\ UNCHANGED game
             ELSE /\ ~session_active'
                  /\ played' \in Bells]_vars

\* C8 witness: Stop was clicked after the session had ended, with no character
\* pending, and did nothing.
C8_Witness ==
    /\ ev.op = "stop"
    /\ played = "none"
    /\ ~session_active
    /\ session_no > 0
    /\ current_char = None

\* C9: a key event while the session is inactive or no character is pending
\* changes nothing: trial log, response_times, best_score, current_char,
\* play_time and session_active stay as they are and no timer is scheduled.
C9_KeyWithoutPromptIsNoOp ==
    [][(ev'.op = "key" /\ (~session_active \/ current_char = None))
          => UNCHANGED <<scores, response_times, best_score, current_char,
                         play_time, session_active, timers>>]_vars

\* C9 witness: a letter key arrived while the session was inactive although a
\* character and its prompt time were set, and was ignored.
C9_Witness ==
    /\ ev.op = "key"
    /\ ev.key = "a"
    /\ ~session_active
    /\ current_char # None
    /\ play_time # NoTime

\* C10: a key whose name is not one character long, arriving while a
\* character is pending in an active session, is ignored: no Trial, no timer,
\* the pending character and prompt time unchanged, the trainer still waiting.
C10_NamedKeyIgnored ==
    [][(ev'.op = "key" /\ Len(ev'.key) # 1 /\ Waiting)
          => /\ UNCHANGED <<scores, response_times, best_score, current_char,
                            play_time, timers>>
             /\ Waiting']_vars

\* C10 witness: a named key arrived while a character was pending, and the
\* trainer is still waiting for the answer.
C10_Witness ==
    /\ ev.op = "key"
    /\ Len(ev.key) # 1
    /\ Waiting
    /\ scores = <<>>

\* C11: an effective stop whose save_session raises (the log is not empty and
\* no row reaches the history) still ends the session: session_active is
\* false, the final summary of the log is on display, the bell is attempted
\* and the trial log is as it was.
C11_SaveFailureSwallowed ==
    [][(ev'.op \in StopOps /\ session_active /\ scores # <<>>
          /\ history' = history)
          => /\ ~session_active'
             /\ score_display' = Summary(scores)
             /\ played' \in Bells
             /\ scores' = scores]_vars

\* C11 witness: a session with a trial was stopped, save_session was called
\* and left no row, and the summary of the log is on display.
C11_Witness ==
    /\ ev.op \in StopOps
    /\ ~session_active
    /\ scores # <<>>
    /\ tally.saves = 1
    /\ history = <<>>
    /\ score_display = Summary(scores)
    /\ played \in Bells

\* C12: once a character has been pending in an active session for 1.5 s
\* (3 ticks) without an accepted key, its tone sequence has been played a
\* second time, exactly once.
C12_UnansweredCharReplayedOnce ==
    (Waiting /\ now - play_time >= 3) => plays = 2

EndTimerPending ==
    \E t \in BagToSet(timers) : t.callback = "stop_session" /\ t.sess = session_no

\* C15: every started session ends, whatever keys are or are not pressed: as
\* long as it is active its own end timer is pending, and when time passes
\* and due callbacks run, a state with session_active false follows, at the
\* latest when that timer fires.
C15_SessionEventuallyEnds ==
    /\ [](session_active => EndTimerPending)
    /\ session_active ~> ~session_active

\* C15 witness: a session that was never stopped by the user ended when its
\* end timer fired, after the user had answered a character.
C15_Witness ==
    /\ ev.op = "timeout"
    /\ ~session_active
    /\ tally.stops = 1
    /\ tally.accepted > 0
    /\ ~EndTimerPending

\* C16: accuracy is correct / total * 100 of the trial log and 0, with no
\* division by zero, for the empty log; the percentage of the summary on
\* display and the accuracy of every saved row are that value for the log
\* they were computed from.
C16_AccuracyOfLog ==
    /\ SameRatio(Accuracy(<<>>), Ratio(0, 1))
    /\ SameRatio(Percentage(<<>>), Ratio(0, 1))
    /\ \A n \in 1..Len(history) :
          LET log == history[n].scores
              good == Len(SelectSeq(log, LAMBDA trial : trial[3]))
          IN  /\ log # <<>>
              /\ SameRatio(history[n].accuracy, Ratio(good * 100, Len(log)))
    /\ score_display # NoSummary
          => LET good == Len(SelectSeq(scores, LAMBDA trial : trial[3]))
             IN  /\ scores # <<>>
                 /\ SameRatio(score_display[1].percentage,
                              Ratio(good * 100, Len(scores)))

\* C16 witness: a session with one correct and one incorrect answer was
\* stopped; its summary shows 50 % and the saved row holds 50 %.
C16_Witness ==
    /\ ev.op \in StopOps
    /\ Len(scores) = 2
    /\ history # <<>>
    /\ history[Len(history)].scores = scores
    /\ SameRatio(history[Len(history)].accuracy, Ratio(50, 1))
    /\ score_display # NoSummary
    /\ SameRatio(score_display[1].percentage, Ratio(50, 1))

\* C17: at construction and after every update_wpm with a speed between 10
\* and 30 WPM, dot_duration times wpm is 1.2 s and dash_duration is three
\* times dot_duration.
C17_DotAndDashFollowWpm ==
    /\ wpm \in 10..30
    /\ SameRatio(Ratio(dot_duration.num * wpm, dot_duration.den), Ratio(12, 10))
    /\ SameRatio(dash_duration, Ratio(dot_duration.num * 3, dot_duration.den))

\* C17 witness: the speed was changed more than once, last to 30 WPM while a
\* session was running.
C17_Witness ==
    /\ ev.op = "wpm"
    /\ wpm = 30
    /\ inputs >= 3
    /\ session_active
    /\ SameRatio(dot_duration, Ratio(4, 100))

\* C18: a Start click while no session is active leaves the trial log empty
\* and the session active, and adds exactly two timers to those pending: one
\* first-character presentation due in 1.0 s and one session-end timer due
\* after the configured length, which becomes the session's timer; when that
\* timer fires while the session is still the active one, the session stops.
C18_EffectiveStartSchedulesSession ==
    [][/\ (ev'.op = "start" /\ ~session_active)
            => /\ session_active'
               /\ scores' = <<>>
               /\ session_length' \in SessionLengths
               /\ session_no' = session_no + 1
               /\ session_timer' = session_no'
               /\ timers' = timers
                     (+) SetToBag({[callback |-> "next_char", due |-> now + 2,
                                    sess |-> session_no']})
                     (+) SetToBag({[callback |-> "stop_session",
                                    due |-> now + session_length',
                                    sess |-> session_no']})
       /\ (ev'.op = "timeout" /\ session_active)
            => ~session_active']_vars

\* C18 witness: the session started by an effective Start click was stopped
\* by its own end timer, fired when due.
C18_Witness ==
    /\ ev.op = "timeout"
    /\ ~session_active
    /\ session_no = 1
    /\ now = session_length
    /\ tally.stops = 1

\* C19: an accepted key in an active session schedules exactly one
\* next-character presentation, due in 0.5 s, and nothing when the session is
\* not active; and when a presentation runs in an active session, a character
\* is pending and answerable afterwards.
C19_AcceptedKeyLeadsToNextChar ==
    [][/\ (ev'.op = "key" /\ Len(scores') = Len(scores) + 1)
            => timers' = IF session_active
                         THEN timers (+) SetToBag({[callback |-> "next_char",
                                                    due |-> now + 1,
                                                    sess |-> session_no]})
                         ELSE timers
       /\ (ev'.op = "next_char" /\ session_active)
            => (current_char' # None /\ Waiting')]_vars

\* C20: response_times gains the reaction time of every accepted answer that
\* is correct, one point each, gains nothing for an incorrect answer and is
\* changed by nothing else; so in the first session its length is the number
\* of correct Trials of the log.
C20_OnePointPerCorrectAnswer ==
    /\ [][IF ev'.op = "key" /\ Len(scores') = Len(scores) + 1
          THEN LET trial == scores'[Len(scores')]
               IN  response_times' = IF trial[3]
                                     THEN Append(response_times, trial[2])
                                     ELSE response_times
          ELSE response_times' = response_times]_vars
    /\ [](session_no = 1
            => Len(response_times)
                  = Len(SelectSeq(scores, LAMBDA trial : trial[3])))

\* C20 witness: a correct answer and then an incorrect one were accepted in a
\* session, and the chart holds the one point of the correct answer.
C20_Witness ==
    /\ ev.op = "key"
    /\ session_active
    /\ Len(scores) = 2
    /\ scores[1][3]
    /\ ~scores[2][3]
    /\ response_times = <<scores[1][2]>>

\* C21: the trial log changes in two ways only: an accepted key appends one
\* Trial to it while the session is active, leaving the Trials before it as
\* they were, and an effective Start empties it.  From a stop to the next
\* effective Start no key event and no timer callback changes it.
C21_LogAppendOnlyAndSealed ==
    [][\/ scores' = scores
       \/ /\ session_active
          /\ ev'.op = "key"
          /\ Len(scores') = Len(scores) + 1
          /\ SubSeq(scores', 1, Len(scores)) = scores
       \/ /\ ~session_active
          /\ ev'.op = "start"
          /\ session_active'
          /\ scores' = <<>>]_vars

\* C21 witness: after a session with a Trial was stopped, a callback left
\* over from it presented a character and the user pressed a letter key; the
\* log is as it was at the stop.
C21_Witness ==
    /\ ev.op = "key"
    /\ Len(ev.key) = 1
    /\ ~session_active
    /\ tally.stops = 1
    /\ current_char # None
    /\ play_time # NoTime
    /\ Len(scores) = 1
    /\ tally.accepted = 1

\* The number of pending timers whose callback is the given one.
PendingCount(callback, pending) ==
    BagCardinality([t \in {u \in BagToSet(pending) : u.callback = callback}
                       |-> CopiesIn(t, pending)])

\* C22: at most one next-character callback is pending at any time, and
\* next_char never runs while a presented character still awaits its answer,
\* so no presented character is overwritten by another presentation.
C22_NoPresentationOverwritten ==
    [][/\ PendingCount("next_char", timers') <= 1
       /\ (ev'.op = "next_char") => ~Waiting]_vars

\* C23: a key is accepted (a Trial is appended) only when the pending
\* character was presented, since the effective Start of the session, by a
\* next_char callback that this session scheduled; no Trial refers to a
\* character left over from an earlier session's callbacks.
C23_TrialAnswersOwnPresentation ==
    [][(ev'.op = "key" /\ Len(scores') = Len(scores) + 1) => tally.own]_vars

\* C24: between handlers, current_char and play_time are both null or both
\* set: no character is pending without the prompt time of its presentation.
C24_CharAndPromptTimeTogether ==
    (current_char = None) <=> (play_time = NoTime)

\* C25: at most one session-end timer is pending at any time, and a session
\* is ended by a timer only when a timer of its own has fallen due: a timer
\* scheduled by an earlier session never stops a later one.
C25_OneEndTimerOwnSession ==
    [][/\ PendingCount("stop_session", timers') <= 1
       /\ (ev'.op = "timeout" /\ session_active)
            => \E t \in BagToSet(timers) : /\ t.callback = "stop_session"
                                           /\ t.sess = session_no
                                           /\ t.due <= now]_vars

====
